---- MODULE Spec2Model ----
(***************************************************************************)
(* Insurance document extraction service: the two /extract handlers        *)
(* (app.py, the Mistral OCR + OpenAI deployment; main.py, the native       *)
(* reader + vision deployment) and the adapters they call.                 *)
(*                                                                         *)
(* Text is a sequence of one-character strings, a JSON object a function   *)
(* from key names to tagged values, an exception a record of its class and *)
(* its message parts.  The providers are the environment: every call picks *)
(* one of their possible answers.                                          *)
(***************************************************************************)
EXTENDS Integers, Sequences, FiniteSets, TLC

VARIABLES
    deployment,   \* "ocr" (app.py) or "native" (main.py)
    env,          \* settings / environment variables, fixed at start-up
    active,       \* the requests that may arrive
    running,      \* the request whose coroutine holds the event loop, or NoReq
    pc,           \* per request: position in the handler
    req,          \* per request: header, filename, size of the upload
    loc,          \* per request: the handler's local variables
    calls,        \* per request: provider calls made so far
    fs,           \* the file system the handlers write: temp files, extract.txt
    response,     \* per request: the HTTP response, once sent
    stages,       \* per request: the pipeline stages finished so far, in order
    health        \* the latest answer of GET /health, once asked

vars == <<deployment, env, active, running, pc, req, loc, calls, fs, response, stages,
          health>>

(***************************************************************************)
(* Bounds of the model.                                                    *)
(***************************************************************************)
MaxPages == 2          \* pages in a provider answer / in a PDF
MaxOdd == 1            \* keys of a generated JSON object that carry an unusual value

Reqs == {"r1", "r2"}
NoReq == "none"

(***************************************************************************)
(* Characters and strings.                                                 *)
(***************************************************************************)
Upper == <<"A","B","C","D","E","F","G","H","I","J","K","L","M",
           "N","O","P","Q","R","S","T","U","V","W","X","Y","Z">>
LowerOf == <<"a","b","c","d","e","f","g","h","i","j","k","l","m",
             "n","o","p","q","r","s","t","u","v","w","x","y","z">>

\* str.lower() on one character
LowerChar(c) ==
    IF \E i \in 1..26 : Upper[i] = c
    THEN LowerOf[CHOOSE i \in 1..26 : Upper[i] = c]
    ELSE c

\* str.lower()
Lower(s) == [i \in 1..Len(s) |-> LowerChar(s[i])]

\* str.rfind(c), 1-based; 0 when c does not occur
RFind(s, c) ==
    IF \E i \in 1..Len(s) : s[i] = c
    THEN CHOOSE i \in 1..Len(s) : s[i] = c /\ \A j \in (i+1)..Len(s) : s[j] # c
    ELSE 0

RECURSIVE PathName(_)
\* PurePath.name: the final path component; parsing the path drops empty
\* components (a trailing or doubled "/") and "." components
PathName(filename) ==
    LET i == RFind(filename, "/")
        last == SubSeq(filename, i + 1, Len(filename))
    IN IF last \notin {<<>>, <<".">>} THEN last
       ELSE IF i = 0 THEN <<>>
       ELSE PathName(SubSeq(filename, 1, i - 1))

\* PurePath.suffix: the last suffix of the final component, with its period
PathSuffix(filename) ==
    LET name == PathName(filename)
        i == RFind(name, ".")
    IN IF 1 < i /\ i < Len(name) THEN SubSeq(name, i, Len(name)) ELSE <<>>

\* filename.split('.')[-1]
SplitLast(s) == SubSeq(s, RFind(s, ".") + 1, Len(s))

\* the characters str.strip() removes (those with str.isspace()); a character
\* that has no escape here is written as its code point
Whitespace ==
    {" ", "\t", "\n", "\r", "\f", "U+000B", "U+001C", "U+001D", "U+001E", "U+001F",
     "U+0085", "U+00A0", "U+1680", "U+2000", "U+2001", "U+2002", "U+2003", "U+2004",
     "U+2005", "U+2006", "U+2007", "U+2008", "U+2009", "U+200A", "U+2028", "U+2029",
     "U+202F", "U+205F", "U+3000"}

\* not text.strip()
IsBlank(text) == \A i \in 1..Len(text) : text[i] \in Whitespace

RECURSIVE Join(_, _)
\* sep.join(parts)
Join(parts, sep) ==
    IF Len(parts) = 0 THEN <<>>
    ELSE IF Len(parts) = 1 THEN parts[1]
    ELSE parts[1] \o sep \o Join(Tail(parts), sep)

RECURSIVE SeqsUpTo(_, _)
\* all sequences over S of length at most n
SeqsUpTo(S, n) ==
    IF n = 0 THEN {<<>>}
    ELSE LET shorter == SeqsUpTo(S, n - 1)
         IN shorter \cup {Append(q, x) : q \in shorter, x \in S}

(***************************************************************************)
(* Exceptions and results.                                                 *)
(***************************************************************************)
Exc(cls, msg) == [cls |-> cls, msg |-> msg]
NoExc == Exc("", <<>>)

\* isinstance(e, base) for the classes that occur
IsInstance(cls, base) ==
    \/ base = "Exception"
    \/ cls = base
    \/ base = "ValueError"
         /\ cls \in {"JSONDecodeError", "ValidationError", "UnicodeDecodeError"}

\* str(e) of an HTTPException: "<status>: <detail>"
HTTPExceptionStr(status, detail) ==
    <<IF status = 400 THEN "400: " ELSE IF status = 401 THEN "401: " ELSE "500: ">> \o detail

(***************************************************************************)
(* models.py / mistral_parser.py / openai_extractor.py constants.          *)
(***************************************************************************)
required_fields ==
    <<"name", "policy_number", "email", "policy_name",
      "plan_type", "sum_assured", "room_rent_limit", "waiting_period">>

Fields == {required_fields[i] : i \in 1..Len(required_fields)}

SUPPORTED_FORMATS ==
    { <<".","p","d","f">>, <<".","d","o","c">>, <<".","d","o","c","x">>,
      <<".","t","x","t">>, <<".","p","n","g">>, <<".","j","p","g">>,
      <<".","j","p","e","g">> }

MAX_FILE_SIZE == 50 * 1024 * 1024

NATIVE_FORMATS ==
    { <<".","p","d","f">>, <<".","t","x","t">>, <<".","d","o","c","x">> }

\* mime_types.get(file_ext, 'application/octet-stream')
MimeOf(file_ext) ==
    IF file_ext = <<"p","d","f">> THEN "application/pdf"
    ELSE IF file_ext = <<"p","n","g">> THEN "image/png"
    ELSE IF file_ext = <<"j","p","g">> THEN "image/jpeg"
    ELSE IF file_ext = <<"j","p","e","g">> THEN "image/jpeg"
    ELSE IF file_ext = <<"t","x","t">> THEN "text/plain"
    ELSE IF file_ext = <<"d","o","c">> THEN "application/msword"
    ELSE IF file_ext = <<"d","o","c","x">>
         THEN "application/vnd.openxmlformats-officedocument.wordprocessingml.document"
    ELSE "application/octet-stream"

(***************************************************************************)
(* JSON values.                                                            *)
(***************************************************************************)
Str(s) == [t |-> "str", v |-> s]
Null == [t |-> "null", v |-> ""]
Num(s) == [t |-> "num", v |-> s]

JsonValues == {Str("x"), Str(""), Null, Num("7")}

EmptyObj == [k \in {} |-> Null]

ExtraKey == "comment"
AllKeys == Fields \cup {ExtraKey}

\* the object with keys D: key k holds the string k, but for the keys in odd,
\* which hold v
Obj(D, odd, v) == [k \in D |-> IF k \in odd THEN v ELSE Str(k)]

Ok(v) == [ok |-> TRUE, val |-> v, exc |-> NoExc]
Err(e) == [ok |-> FALSE, val |-> <<>>, exc |-> e]

(***************************************************************************)
(* The providers' possible answers.                                        *)
(***************************************************************************)
\* page.markdown: empty (or None), whitespace only, or text
PageMarkdowns == {<<>>, <<" ">>, <<"a">>, <<"b">>}

\* client.ocr.process(...): raises, or answers with pages (no pages
\* attribute, None and [] all behave as no pages)
OcrAnswers ==
    {[kind |-> "raise", pages |-> <<>>]}
        \cup {[kind |-> "pages", pages |-> p] : p \in SeqsUpTo(PageMarkdowns, MaxPages)}

\* the JSON objects the LLM may answer with, in a request
LlmObjects ==
    {Obj(D, {"name"} \cap D, v) :
        D \in {Fields, Fields \cup {ExtraKey}, {},
               Fields \ {"email", "plan_type", "waiting_period"}},
        v \in JsonValues}

\* client.chat.completions.create(...): raises (an API error, or a
\* JSONDecodeError from decoding the HTTP body), or answers with a message
\* content: not JSON, None, a JSON value that is no object (one on which
\* "field not in result" or "result[field] = None" fails, or a list or string
\* that contains all eight field names), or a JSON object
LlmAnswers ==
    {[kind |-> k, obj |-> EmptyObj] :
        k \in {"raise_api", "raise_json", "invalid", "none", "nonobject",
               "nonobject_named"}}
        \cup {[kind |-> "object", obj |-> o] : o \in LlmObjects}

(***************************************************************************)
(* mistral_parser.py                                                       *)
(***************************************************************************)
\* a bug: the loop keeps every page, with text or without
ExtractedText_All(pages) == pages

\* the pages kept by the loop of parse_document: those with a truthy markdown
ExtractedText(pages) == SelectSeq(pages, LAMBDA m : Len(m) > 0)

\* MistralDocumentParser.parse_document, given the provider's answer
parse_document(answer) ==
    LET extracted_text == ExtractedText(answer.pages)
        inner ==
            IF answer.kind = "raise"
            THEN Err(Exc("SDKError", <<"ocr provider failure">>))
            ELSE IF Len(extracted_text) = 0
            THEN Err(Exc("ValueError", <<"No text content found in OCR response">>))
            ELSE Ok(Join(extracted_text, <<"\n", "\n">>))
    IN  IF inner.ok THEN inner
        ELSE Err(Exc("RuntimeError", <<"Mistral OCR error: ">> \o inner.exc.msg))

(***************************************************************************)
(* openai_extractor.py                                                     *)
(***************************************************************************)
RECURSIVE AddMissingFrom_Overwrite(_, _)
\* a bug: the loop assigns null to every required field, present or not
AddMissingFrom_Overwrite(result, i) ==
    IF i > Len(required_fields) THEN result
    ELSE LET field == required_fields[i]
             next == [k \in DOMAIN result \cup {field} |->
                         IF k = field THEN Null ELSE result[k]]
         IN AddMissingFrom_Overwrite(next, i + 1)

RECURSIVE AddMissingFrom(_, _)
\* the loop "for field in required_fields: if field not in result: ..."
\* from position i on
AddMissingFrom(result, i) ==
    IF i > Len(required_fields) THEN result
    ELSE LET field == required_fields[i]
             next == IF field \notin DOMAIN result
                     THEN [k \in DOMAIN result \cup {field} |->
                              IF k = field THEN Null ELSE result[k]]
                     ELSE result
         IN AddMissingFrom(next, i + 1)

AddMissingFields(result) == AddMissingFrom(result, 1)

\* a JSON list or string in which every required field name occurs: each
\* "field not in result" is false, so the loop assigns nothing and the value
\* itself is returned
NamesValue == [t |-> "list", v |-> "names"]

\* OpenAIExtractor.extract_insurance_data, given the provider's answer
extract_insurance_data(answer) ==
    LET inner ==
            IF answer.kind = "raise_api"
            THEN Err(Exc("APIError", <<"llm provider failure">>))
            ELSE IF answer.kind \in {"raise_json", "invalid"}
            THEN Err(Exc("JSONDecodeError", <<"Expecting value">>))
            ELSE IF answer.kind = "none"
            THEN Err(Exc("TypeError", <<"the JSON object must be str, bytes or bytearray">>))
            ELSE IF answer.kind = "nonobject"
            THEN Err(Exc("TypeError", <<"argument is not iterable">>))
            ELSE IF answer.kind = "nonobject_named"
            THEN Ok(NamesValue)
            ELSE Ok(AddMissingFields(answer.obj))
    IN  IF inner.ok THEN inner
        ELSE IF inner.exc.cls = "JSONDecodeError"
        THEN Err(Exc("ValueError",
                     <<"Failed to parse OpenAI response as JSON: ">> \o inner.exc.msg))
        ELSE Err(Exc("RuntimeError", <<"OpenAI API error: ">> \o inner.exc.msg))

(***************************************************************************)
(* models.py                                                               *)
(***************************************************************************)
\* a bug: the email field is declared under another name, so it is never filled
InsuranceDataResponse_Typo(result) ==
    IF result = NamesValue
    THEN Err(Exc("TypeError", <<"argument after ** must be a mapping">>))
    ELSE IF \E k \in Fields \cap DOMAIN result : result[k].t \notin {"str", "null"}
    THEN Err(Exc("ValidationError", <<"validation error for InsuranceDataResponse">>))
    ELSE Ok([k \in Fields |->
                IF k \in DOMAIN result /\ k # "email" THEN result[k] ELSE Null])

\* InsuranceDataResponse(**result): Optional[str] fields defaulting to None,
\* unknown keys ignored, a value that is no string and not null rejected;
\* "**result" raises TypeError when result is no mapping
InsuranceDataResponse(result) ==
    IF result = NamesValue
    THEN Err(Exc("TypeError", <<"argument after ** must be a mapping">>))
    ELSE IF \E k \in Fields \cap DOMAIN result : result[k].t \notin {"str", "null"}
    THEN Err(Exc("ValidationError", <<"validation error for InsuranceDataResponse">>))
    ELSE Ok([k \in Fields |-> IF k \in DOMAIN result THEN result[k] ELSE Null])

(***************************************************************************)
(* HTTP responses.                                                         *)
(***************************************************************************)
Response(status, detail, body) == [status |-> status, detail |-> detail, body |-> body]
NoResponse == Response(0, <<>>, EmptyObj)

\* an exception no handler catches: the server answers 500
Unhandled(exc) == Response(500, <<"Internal Server Error">>, EmptyObj)

\* the except clauses of app.py extract_insurance_data
app_except(exc) ==
    IF IsInstance(exc.cls, "ValueError") THEN Response(400, exc.msg, EmptyObj)
    ELSE IF IsInstance(exc.cls, "RuntimeError") THEN Response(500, exc.msg, EmptyObj)
    ELSE Response(500, <<"Unexpected error: ">> \o exc.msg, EmptyObj)

\* an HTTPException as the exception object it is
HTTPException(status, detail) == Exc("HTTPException", HTTPExceptionStr(status, detail))

(***************************************************************************)
(* Configuration and inputs.                                               *)
(***************************************************************************)
\* reading an attribute the Settings class does not declare raises
\* AttributeError: config.py declares openai_api_key and mistral_api_key only
MissingAttr == "<no such attribute>"

\* importing a name its module does not define raises ImportError:
\* ai_integration/_llm.py defines OpenAILLM and CustomPromptLoader only
MissingName == "<no such name>"

\* os.getenv of a variable that is not set gives None; a required field of
\* Settings whose variable is not set makes Settings() raise
Unset == "<unset>"

\* main.py line 15 -> ai_integration/__init__.py line 1 and _pdf_extract.py
\* line 8, "from ._llm import GeminiLLM", and main.py line 16, "from utils
\* import extract_text_from_document": main.py is imported, and its
\* application serves requests, only when both names exist
main_imported ==
    /\ env.GeminiLLM # MissingName
    /\ env.extract_text_from_document # MissingName

\* config.py line 19 (imported by app.py line 7): Settings() raises when
\* OPENAI_API_KEY or MISTRAL_API_KEY is not set, and app.py is not imported
settings_loaded == env.mistral_api_key # Unset /\ env.openai_api_key # Unset

\* the deployment's application has started
Serving == IF deployment = "ocr" THEN settings_loaded ELSE main_imported

\* app.py module level: the client is None when its key is empty
mistralClient == env.mistral_api_key \notin {Unset, ""}
openaiClient == env.openai_api_key \notin {Unset, ""}

\* app.py line 42: "x_api_key: str = Header(...)" is a required header; a
\* request that carries no X-API-Key is answered 422 by the framework before
\* the handler runs
NoHeader == "<no header>"

HeaderKeys == {NoHeader, "secret", "wrong"}

\* the answer of the framework to a request whose required header is missing
RequestValidationError == Response(422, <<"Field required">>, EmptyObj)

Filenames ==
    { <<"a",".","p","d","f">>, <<"a",".","P","D","F">>, <<"a",".","t","x","t">>,
      <<"a",".","d","o","c">>, <<"a",".","p","n","g">>, <<"a",".","e","x","e">>,
      <<"a">>, <<".","p","d","f">>, <<"a",".","p","d","f",".">>,
      <<"a",".","b","/","c">>, <<"a",".","p","d","f","/">> }

\* "await file.read()": the upload is held in a spooled file that stays in
\* memory up to 1 MiB; UploadFile.read reads an in-memory spool directly and
\* hands the read of a spool on disk to a thread, which is where the coroutine
\* gives up the event loop
SPOOL_MAX_SIZE == 1024 * 1024

ReadSuspends(size) == size > SPOOL_MAX_SIZE

Sizes == {0, 1024, SPOOL_MAX_SIZE, SPOOL_MAX_SIZE + 1, MAX_FILE_SIZE, MAX_FILE_SIZE + 1}

\* what the environment may choose from: S, or the few of S when two
\* requests are in flight
Inputs(S, few) == IF Cardinality(active) > 1 THEN S \cap few ELSE S

InitReq == [endpoint |-> "", key |-> "", filename |-> <<>>, size |-> 0, text |-> <<>>]

\* the routes that take a document or its text: app.py serves /extract,
\* main.py serves /extract and /extract-text
Endpoints == IF deployment = "ocr" THEN {"/extract"} ELSE {"/extract", "/extract-text"}

\* the values of the query parameter "text" of /extract-text
TextParams == {<<>>, <<" ", "\n">>, <<"\r", "\n">>, <<"a">>, <<"a", "\n", "b">>}

InitLoc ==
    [file_ext |-> <<>>, file_content |-> 0, mime_type |-> "",
     document_text |-> <<>>, llm_input |-> <<>>, result |-> EmptyObj,
     temp_file_path |-> FALSE, n_pages |-> 0, page_num |-> 0,
     extracted_texts |-> <<>>, pending |-> NoResponse,
     vision_pages |-> <<>>, page_texts |-> <<>>,
     ocr_answer |-> [kind |-> "", pages |-> <<>>],
     llm_answer |-> [kind |-> "", obj |-> EmptyObj],
     results |-> <<>>]

InitCalls == [ocr |-> 0, llm |-> 0, vision |-> 0]

\* a pipeline stage of r has ended: with success, or with this error message
StageDone(r, stage, ok, err) ==
    stages' = [stages EXCEPT ![r] = Append(@, [stage |-> stage, ok |-> ok, err |-> err])]

\* the handler of r ends with this response
Finish(r, resp) ==
    /\ response' = [response EXCEPT ![r] = resp]
    /\ pc' = [pc EXCEPT ![r] = "done"]
    /\ running' = NoReq

Goto(r, label) ==
    /\ pc' = [pc EXCEPT ![r] = label]
    /\ UNCHANGED <<response, running>>

(***************************************************************************)
(* A request arrives: the server starts its handler coroutine when the     *)
(* event loop is free.                                                     *)
(***************************************************************************)
Start(r) ==
    /\ r \in active
    /\ Serving
    /\ pc[r] = "idle"
    /\ running = NoReq
    /\ \E key \in (IF deployment = "ocr" THEN Inputs(HeaderKeys, {"secret"}) ELSE {""}),
          filename \in Inputs(Filenames, {<<"a", ".", "p", "d", "f">>,
                                          <<"a", ".", "t", "x", "t">>}),
          size \in Inputs(Sizes, {1024, SPOOL_MAX_SIZE + 1}),
          text \in Inputs(TextParams, {<<"a">>}),
          endpoint \in Endpoints :
          IF endpoint = "/extract"
          THEN /\ req' = [req EXCEPT ![r] = [endpoint |-> endpoint, key |-> key,
                              filename |-> filename, size |-> size, text |-> <<>>]]
               /\ IF key = NoHeader
                  THEN Finish(r, RequestValidationError)
                  ELSE /\ pc' = [pc EXCEPT ![r] =
                                    IF deployment = "ocr" THEN "auth" ELSE "construct"]
                       /\ running' = r
                       /\ UNCHANGED response
          ELSE /\ req' = [req EXCEPT ![r] = [InitReq EXCEPT !.endpoint = endpoint,
                                                           !.text = text]]
               /\ pc' = [pc EXCEPT ![r] = "tconstruct"]
               /\ running' = r
               /\ UNCHANGED response
    /\ UNCHANGED <<health, deployment, env, active, loc, calls, fs, stages>>

(***************************************************************************)
(* app.py: extract_insurance_data                                          *)
(***************************************************************************)
\* lines 60-65: "if x_api_key != settings.api_auth_token"
Authenticate(r) ==
    /\ running = r
    /\ pc[r] = "auth"
    /\ IF env.api_auth_token = MissingAttr
       THEN Finish(r, Unhandled(Exc("AttributeError", <<"api_auth_token">>)))
       ELSE IF req[r].key # env.api_auth_token
       THEN Finish(r, Response(401, <<"Invalid or missing API key">>, EmptyObj))
       ELSE Goto(r, "services")
    /\ UNCHANGED <<health, deployment, env, active, req, loc, calls, fs, stages>>

\* lines 67-78: the clients must have been constructed
CheckServices(r) ==
    /\ running = r
    /\ pc[r] = "services"
    /\ IF ~mistralClient
       THEN Finish(r, Response(500, <<"Mistral API key not configured">>, EmptyObj))
       ELSE IF ~openaiClient
       THEN Finish(r, Response(500, <<"OpenAI API key not configured">>, EmptyObj))
       ELSE Goto(r, "format")
    /\ UNCHANGED <<health, deployment, env, active, req, loc, calls, fs, stages>>

\* line 82: "file_ext not in MistralDocumentParser.SUPPORTED_FORMATS", negated
FormatAllowed(file_ext) == file_ext \in SUPPORTED_FORMATS

\* lines 80-90: the extension check; a supported file goes on to
\* "await file.read()", where the coroutine gives up the event loop when
\* the upload is on disk
ValidateFormat(r) ==
    /\ running = r
    /\ pc[r] = "format"
    /\ LET file_ext == Lower(PathSuffix(req[r].filename))
       IN /\ loc' = [loc EXCEPT ![r].file_ext = file_ext]
          /\ IF ~FormatAllowed(file_ext)
             THEN /\ Finish(r, Response(400, <<"Unsupported file format: ">>, EmptyObj))
                  /\ StageDone(r, "validate", FALSE, <<"Unsupported file format: ">>)
             ELSE /\ pc' = [pc EXCEPT ![r] = "read"]
                  /\ running' = IF ReadSuspends(req[r].size) THEN NoReq ELSE r
                  /\ UNCHANGED <<response, stages>>
    /\ UNCHANGED <<health, deployment, env, active, req, calls, fs>>

\* line 90: file.read() returns the upload, or fails; the failure is caught
\* by "except Exception"
ReadFile(r) ==
    /\ running = IF ReadSuspends(req[r].size) THEN NoReq ELSE r
    /\ pc[r] = "read"
    /\ \E read_ok \in BOOLEAN :
          IF read_ok
          THEN /\ loc' = [loc EXCEPT ![r].file_content = req[r].size]
               /\ pc' = [pc EXCEPT ![r] = "size"]
               /\ running' = r
               /\ UNCHANGED response
          ELSE /\ Finish(r, app_except(Exc("OSError", <<"read failed">>)))
               /\ UNCHANGED loc
    /\ UNCHANGED <<health, deployment, env, active, req, calls, fs, stages>>

\* a bug: the size check reports the oversize upload but goes on to the OCR call
ValidateSize_Continue(r) ==
    /\ running = r
    /\ pc[r] = "size"
    /\ Goto(r, "ocr")
    /\ StageDone(r, "validate", loc[r].file_content <= MAX_FILE_SIZE,
                 IF loc[r].file_content > MAX_FILE_SIZE
                 THEN <<"File size exceeds maximum limit of 50MB">> ELSE <<>>)
    /\ UNCHANGED <<health, deployment, env, active, req, loc, calls, fs>>

\* lines 92-97: the size check raises HTTPException(400) inside the try
\* block, whose except clauses then handle it
ValidateSize(r) ==
    /\ running = r
    /\ pc[r] = "size"
    /\ IF loc[r].file_content > MAX_FILE_SIZE
       THEN /\ Finish(r, app_except(HTTPException(400,
                         <<"File size exceeds maximum limit of 50MB">>)))
            /\ StageDone(r, "validate", FALSE, <<"File size exceeds maximum limit of 50MB">>)
       ELSE /\ Goto(r, "ocr")
            /\ StageDone(r, "validate", TRUE, <<>>)
    /\ UNCHANGED <<health, deployment, env, active, req, loc, calls, fs>>

\* mistral_parser.py lines 30-61: the request to the OCR provider is sent;
\* the call is synchronous, the coroutine keeps the event loop while it waits
OcrRequest(r) ==
    /\ running = r
    /\ pc[r] = "ocr"
    /\ calls' = [calls EXCEPT ![r].ocr = @ + 1]
    /\ loc' = [loc EXCEPT ![r].mime_type = MimeOf(SplitLast(Lower(req[r].filename)))]
    /\ Goto(r, "ocr_wait")
    /\ UNCHANGED <<health, deployment, env, active, req, fs, stages>>

\* a bug: a failed OCR call is tried once more
OcrReturn_Retry(r) ==
    /\ running = r
    /\ pc[r] = "ocr_wait"
    /\ \E answer \in Inputs(OcrAnswers, {a \in OcrAnswers : Len(a.pages) <= 1}) :
          LET parsed == parse_document(answer)
          IN IF parsed.ok
             THEN /\ loc' = [loc EXCEPT ![r].document_text = parsed.val,
                                        ![r].ocr_answer = answer]
                  /\ Goto(r, "llm")
                  /\ StageDone(r, "text", TRUE, <<>>)
             ELSE IF calls[r].ocr < 2
             THEN /\ loc' = [loc EXCEPT ![r].ocr_answer = answer]
                  /\ Goto(r, "ocr")
                  /\ UNCHANGED stages
             ELSE /\ loc' = [loc EXCEPT ![r].ocr_answer = answer]
                  /\ Finish(r, app_except(parsed.exc))
                  /\ StageDone(r, "text", FALSE, parsed.exc.msg)
    /\ UNCHANGED <<health, deployment, env, active, req, calls, fs>>

\* mistral_parser.py lines 63-79 and app.py lines 100, 107-112
OcrReturn(r) ==
    /\ running = r
    /\ pc[r] = "ocr_wait"
    /\ \E answer \in Inputs(OcrAnswers, {a \in OcrAnswers : Len(a.pages) <= 1}) :
          LET parsed == parse_document(answer)
          IN IF parsed.ok
             THEN /\ loc' = [loc EXCEPT ![r].document_text = parsed.val,
                                        ![r].ocr_answer = answer]
                  /\ Goto(r, "llm")
                  /\ StageDone(r, "text", TRUE, <<>>)
             ELSE /\ loc' = [loc EXCEPT ![r].ocr_answer = answer]
                  /\ Finish(r, app_except(parsed.exc))
                  /\ StageDone(r, "text", FALSE, parsed.exc.msg)
    /\ UNCHANGED <<health, deployment, env, active, req, calls, fs>>

\* openai_extractor.py lines 145-159: the request to the LLM provider is sent
LlmRequest(r) ==
    /\ running = r
    /\ pc[r] = "llm"
    /\ calls' = [calls EXCEPT ![r].llm = @ + 1]
    /\ loc' = [loc EXCEPT ![r].llm_input = loc[r].document_text]
    /\ Goto(r, "llm_wait")
    /\ UNCHANGED <<health, deployment, env, active, req, fs, stages>>

\* app.py lines 103-112, given what extract_insurance_data returned or raised
extract_response(extracted) ==
    IF ~extracted.ok THEN app_except(extracted.exc)
    ELSE LET model == InsuranceDataResponse(extracted.val)
         IN IF model.ok THEN Response(200, <<>>, model.val)
            ELSE app_except(model.exc)

\* the error the field extraction stage ended with, if any
extract_error(extracted) ==
    IF ~extracted.ok THEN extracted.exc.msg
    ELSE LET model == InsuranceDataResponse(extracted.val)
         IN IF model.ok THEN <<>> ELSE model.exc.msg

\* openai_extractor.py lines 161-180 and app.py lines 103-112
LlmReturn(r) ==
    /\ running = r
    /\ pc[r] = "llm_wait"
    /\ \E answer \in Inputs(LlmAnswers,
                           {a \in LlmAnswers : /\ a.kind \in {"raise_api", "object"}
                                               /\ DOMAIN a.obj \in {{}, Fields}}) :
          LET extracted == extract_insurance_data(answer)
              resp == extract_response(extracted)
          IN /\ loc' = [loc EXCEPT ![r].result =
                                IF extracted.ok THEN extracted.val ELSE EmptyObj,
                            ![r].llm_answer = answer]
             /\ Finish(r, resp)
             /\ StageDone(r, "fields", resp.status = 200, extract_error(extracted))
    /\ UNCHANGED <<health, deployment, env, active, req, calls, fs>>

OcrStep(r) ==
    \/ Authenticate(r)
    \/ CheckServices(r)
    \/ ValidateFormat(r)
    \/ ReadFile(r)
    \/ ValidateSize(r)
    \/ OcrRequest(r)
    \/ OcrReturn(r)
    \/ LlmRequest(r)
    \/ LlmReturn(r)

(***************************************************************************)
(* utils/pdf_processor/_pdf.py                                             *)
(***************************************************************************)
Digits == <<"1", "2", "3", "4", "5", "6", "7", "8", "9">>

\* a bug: the label carries the loop index, which counts from 0
PageEntry_ZeroBased(page_num, page_text) ==
    <<"--- Page ", (<<"0">> \o Digits)[page_num + 1], " ---", "\n">> \o page_text

\* f"--- Page {page_num + 1} ---\n{page_text}", page_num counted from 0
PageEntry(page_num, page_text) ==
    <<"--- Page ", Digits[page_num + 1], " ---", "\n">> \o page_text

\* what the vision model transcribes from one page image
VisionTexts == {<<>>, <<"a">>, <<"b">>}

\* what the .txt and .docx readers return
NativeTexts == {<<>>, <<" ", "\n">>, <<"a">>, <<"a", "\n", "b">>}

\* the two wrappers around a failure inside extract_text_from_document
ExtractionError(file_ext, inner) ==
    Exc("Exception", <<"Error extracting text from ">> \o file_ext \o <<" file: ">> \o inner)

(***************************************************************************)
(* main.py: extract_document_info                                          *)
(***************************************************************************)
\* "except HTTPException: raise / except Exception as e: raise HTTPException(500)"
main_except(exc) ==
    Response(500, <<"Error processing document: ">> \o exc.msg, EmptyObj)

\* the try block is left for the finally clause with this outcome pending
ToFinally(r, resp) ==
    /\ loc' = [loc EXCEPT ![r].pending = resp]
    /\ Goto(r, "finally")

\* the records generate() can return: an InsurancePolicyData instance
PolicyRecords == {Obj(Fields, {"name"}, v) : v \in {Str("x"), Str(""), Null}}

\* _pdf_extract.py line 68: "GeminiLLM(model_name=...)". src/ holds no
\* definition of the class; where the name exists, constructing it is taken
\* to build the client without calling the provider
GeminiLLM(e) ==
    IF e.GeminiLLM = MissingName
    THEN Err(Exc("NameError", <<"name 'GeminiLLM' is not defined">>))
    ELSE Ok("llm")

\* InsurancePDFProcessor.__init__: without GOOGLE_API_KEY (unset or empty) it
\* raises RuntimeError; then the LLM is built; without
\* prompts/insurance_pdf.yaml get_prompt returns None and
\* RunnableSequence(None, llm, parser) raises TypeError
InsurancePDFProcessor(e) ==
    IF e.GOOGLE_API_KEY = ""
    THEN Err(Exc("RuntimeError", <<"GOOGLE_API_KEY is required">>))
    ELSE IF ~GeminiLLM(e).ok
    THEN GeminiLLM(e)
    ELSE IF e.prompt_yaml = "absent"
    THEN Err(Exc("TypeError", <<"Expected a Runnable, callable or dict">>))
    ELSE Ok("processor")

\* main.py line 68: InsurancePDFProcessor() is constructed before anything is
\* checked, outside the try block
Construct(r) ==
    /\ running = r
    /\ pc[r] = "construct"
    /\ IF ~InsurancePDFProcessor(env).ok
       THEN Finish(r, Unhandled(InsurancePDFProcessor(env).exc))
       ELSE Goto(r, "nformat")
    /\ UNCHANGED <<health, deployment, env, active, req, loc, calls, fs, stages>>

\* line 70: "file_extension not in ['.pdf', '.txt', '.docx']", negated
NativeFormatAllowed(file_extension) == file_extension \in NATIVE_FORMATS

\* lines 69-74: the extension check, outside the try block
NativeValidate(r) ==
    /\ running = r
    /\ pc[r] = "nformat"
    /\ LET file_extension == Lower(PathSuffix(req[r].filename))
       IN /\ loc' = [loc EXCEPT ![r].file_ext = file_extension]
          /\ IF ~NativeFormatAllowed(file_extension)
             THEN /\ Finish(r, Response(400, <<"Unsupported file format.">>, EmptyObj))
                  /\ StageDone(r, "validate", FALSE, <<"Unsupported file format.">>)
             ELSE /\ Goto(r, "tmp")
                  /\ StageDone(r, "validate", TRUE, <<>>)
    /\ UNCHANGED <<health, deployment, env, active, req, calls, fs>>

\* lines 77-79: NamedTemporaryFile(delete=False) creates the file, then
\* "await file.read()" gives up the event loop when the upload is on disk
CreateTemp(r) ==
    /\ running = r
    /\ pc[r] = "tmp"
    /\ \E created \in BOOLEAN :
          IF created
          THEN /\ fs' = [fs EXCEPT !.temp = @ \cup {r}]
               /\ pc' = [pc EXCEPT ![r] = "nread"]
               /\ running' = IF ReadSuspends(req[r].size) THEN NoReq ELSE r
               /\ UNCHANGED <<response, loc>>
          ELSE /\ ToFinally(r, main_except(Exc("OSError", <<"cannot create temp file">>)))
               /\ UNCHANGED fs
    /\ UNCHANGED <<health, deployment, env, active, req, calls, stages>>

\* lines 77-81: the upload is read and written to the temp file, then
\* temp_file_path is assigned, then the with block closes the file. read()
\* or write() may raise, before the assignment; the close, which flushes the
\* buffered bytes, may raise after it; file_content is the "content" of
\* line 79, bound once read() has returned
ReadUpload(r) ==
    /\ running = IF ReadSuspends(req[r].size) THEN NoReq ELSE r
    /\ pc[r] = "nread"
    /\ \E outcome \in {"copied", "read_raised", "write_raised", "close_raised"} :
          IF outcome = "copied"
          THEN /\ loc' = [loc EXCEPT ![r].file_content = req[r].size,
                                     ![r].temp_file_path = TRUE]
               /\ pc' = [pc EXCEPT ![r] = "extract"]
          ELSE IF outcome = "read_raised"
          THEN /\ loc' = [loc EXCEPT ![r].pending =
                              main_except(Exc("OSError", <<"read failed">>))]
               /\ pc' = [pc EXCEPT ![r] = "finally"]
          ELSE IF outcome = "write_raised"
          THEN /\ loc' = [loc EXCEPT ![r].file_content = req[r].size,
                                     ![r].pending =
                              main_except(Exc("OSError", <<"write failed">>))]
               /\ pc' = [pc EXCEPT ![r] = "finally"]
          ELSE /\ loc' = [loc EXCEPT ![r].file_content = req[r].size,
                                     ![r].temp_file_path = TRUE,
                                     ![r].pending =
                              main_except(Exc("OSError", <<"close failed">>))]
               /\ pc' = [pc EXCEPT ![r] = "finally"]
    /\ running' = r
    /\ UNCHANGED <<health, deployment, env, active, req, calls, fs, response, stages>>

\* line 84, _pdf.py lines 98-113 and 14-27: extract_text_from_document
\* dispatches on the extension; a PDF is opened for the page loop, a .txt or
\* .docx file is read by its reader
ExtractOpen(r) ==
    /\ running = r
    /\ pc[r] = "extract"
    /\ IF loc[r].file_ext = <<".", "p", "d", "f">>
       THEN IF env.OPENAI_API_KEY = Unset
            THEN /\ ToFinally(r, main_except(ExtractionError(loc[r].file_ext,
                        <<"Error extracting text from PDF using OpenAI: ",
                          "The api_key client option must be set">>)))
                 /\ StageDone(r, "text", FALSE, <<"The api_key client option must be set">>)
            ELSE \E opened \in BOOLEAN, n \in Inputs(0..MaxPages, 0..1) :
                    IF ~opened
                    THEN /\ n = 0
                         /\ ToFinally(r, main_except(ExtractionError(loc[r].file_ext,
                                <<"Error extracting text from PDF using OpenAI: ",
                                  "cannot open document">>)))
                         /\ StageDone(r, "text", FALSE, <<"cannot open document">>)
                    ELSE /\ loc' = [loc EXCEPT ![r].n_pages = n, ![r].page_num = 0,
                                               ![r].extracted_texts = <<>>,
                                               ![r].document_text = <<>>]
                         /\ Goto(r, IF n = 0 THEN "dump" ELSE "vision")
                         /\ UNCHANGED stages
       ELSE \E ok \in BOOLEAN, text \in NativeTexts :
               IF ~ok
               THEN /\ text = <<>>
                    /\ ToFinally(r, main_except(ExtractionError(loc[r].file_ext,
                           <<"Error extracting text: ", "reader failed">>)))
                    /\ StageDone(r, "text", FALSE, <<"reader failed">>)
               ELSE /\ loc' = [loc EXCEPT ![r].document_text = text]
                    /\ Goto(r, "dump")
                    /\ UNCHANGED stages
    /\ UNCHANGED <<health, deployment, env, active, req, calls, fs>>

\* _pdf.py lines 27-64: the page is rendered and sent to the vision model
VisionRequest(r) ==
    /\ running = r
    /\ pc[r] = "vision"
    /\ calls' = [calls EXCEPT ![r].vision = @ + 1]
    /\ loc' = [loc EXCEPT ![r].vision_pages = Append(@, loc[r].page_num + 1)]
    /\ Goto(r, "vision_wait")
    /\ UNCHANGED <<health, deployment, env, active, req, fs, stages>>

\* _pdf.py lines 66-75: the page's text is appended under its label; after
\* the last page the entries are joined with blank lines
VisionReturn(r) ==
    /\ running = r
    /\ pc[r] = "vision_wait"
    /\ \E ok \in BOOLEAN, page_text \in VisionTexts :
          IF ~ok
          THEN /\ page_text = <<>>
               /\ ToFinally(r, main_except(ExtractionError(loc[r].file_ext,
                      <<"Error extracting text from PDF using OpenAI: ",
                        "vision provider failure">>)))
               /\ StageDone(r, "text", FALSE, <<"vision provider failure">>)
          ELSE LET texts == Append(loc[r].extracted_texts,
                                   PageEntry(loc[r].page_num, page_text))
                   last == loc[r].page_num + 1 = loc[r].n_pages
               IN /\ loc' = [loc EXCEPT ![r].extracted_texts = texts,
                                        ![r].page_texts = Append(@, page_text),
                                        ![r].page_num = @ + 1,
                                        ![r].document_text =
                                            IF last THEN Join(texts, <<"\n", "\n">>) ELSE @]
                  /\ Goto(r, IF last THEN "dump" ELSE "vision")
                  /\ UNCHANGED stages
    /\ UNCHANGED <<health, deployment, env, active, req, calls, fs>>

\* lines 86-93: extract.txt in the working directory is opened for writing,
\* which truncates it, and the text is written, then checked for being
\* blank. open() may fail, leaving the file as it was; the write may fail,
\* leaving the file with the first k characters of the text
DumpAndCheck(r) ==
    /\ running = r
    /\ pc[r] = "dump"
    /\ \E outcome \in {"open_raised", "write_raised", "written"},
          k \in Inputs(0..Len(loc[r].document_text), {0}) :
          IF outcome = "open_raised"
          THEN /\ k = 0
               /\ ToFinally(r, main_except(Exc("OSError", <<"cannot open extract.txt">>)))
               /\ UNCHANGED <<fs, stages>>
          ELSE IF outcome = "write_raised"
          THEN /\ k < Len(loc[r].document_text)
               /\ fs' = [fs EXCEPT !.extract_txt =
                            [exists |-> TRUE,
                             content |-> SubSeq(loc[r].document_text, 1, k),
                             writers |-> fs.extract_txt.writers \cup {r}]]
               /\ ToFinally(r, main_except(Exc("OSError", <<"cannot write extract.txt">>)))
               /\ UNCHANGED stages
          ELSE /\ k = 0
               /\ fs' = [fs EXCEPT !.extract_txt =
                            [exists |-> TRUE, content |-> loc[r].document_text,
                             writers |-> fs.extract_txt.writers \cup {r}]]
               /\ IF IsBlank(loc[r].document_text)
                  THEN /\ ToFinally(r, Response(400,
                              <<"No text could be extracted from the document">>, EmptyObj))
                       /\ StageDone(r, "text", FALSE,
                                    <<"No text could be extracted from the document">>)
                  ELSE /\ Goto(r, "generate")
                       /\ StageDone(r, "text", TRUE, <<>>)
                       /\ UNCHANGED loc
    /\ UNCHANGED <<health, deployment, env, active, req, calls>>

\* line 96, _pdf_extract.py lines 98-105: the chain is invoked
GenerateRequest(r) ==
    /\ running = r
    /\ pc[r] = "generate"
    /\ calls' = [calls EXCEPT ![r].llm = @ + 1]
    /\ loc' = [loc EXCEPT ![r].llm_input = loc[r].document_text]
    /\ Goto(r, "generate_wait")
    /\ UNCHANGED <<health, deployment, env, active, req, fs, stages>>

\* lines 96-103: the chain returns a record, or raises (provider failure,
\* output the parser rejects)
GenerateReturn(r) ==
    /\ running = r
    /\ pc[r] = "generate_wait"
    /\ \E ok \in BOOLEAN, extracted_data \in PolicyRecords :
          IF ~ok
          THEN /\ extracted_data = Obj(Fields, {"name"}, Null)
               /\ ToFinally(r, main_except(Exc("Exception", <<"chain failure">>)))
               /\ StageDone(r, "fields", FALSE, <<"chain failure">>)
          ELSE /\ loc' = [loc EXCEPT ![r].result = extracted_data,
                                     ![r].pending = Response(200, <<>>, extracted_data)]
               /\ Goto(r, "finally")
               /\ StageDone(r, "fields", TRUE, <<>>)
    /\ UNCHANGED <<health, deployment, env, active, req, calls, fs>>

\* lines 104-107: "if os.path.exists(temp_file_path): os.unlink(...)";
\* temp_file_path is unbound when the try block failed before line 81
Finally(r) ==
    /\ running = r
    /\ pc[r] = "finally"
    /\ IF ~loc[r].temp_file_path
       THEN /\ Finish(r, Unhandled(Exc("UnboundLocalError", <<"temp_file_path">>)))
            /\ UNCHANGED fs
       ELSE /\ Finish(r, loc[r].pending)
            /\ fs' = [fs EXCEPT !.temp = @ \ {r}]
    /\ UNCHANGED <<health, deployment, env, active, req, loc, calls, stages>>

NativeStep(r) ==
    \/ Construct(r)
    \/ NativeValidate(r)
    \/ CreateTemp(r)
    \/ ReadUpload(r)
    \/ ExtractOpen(r)
    \/ VisionRequest(r)
    \/ VisionReturn(r)
    \/ DumpAndCheck(r)
    \/ GenerateRequest(r)
    \/ GenerateReturn(r)
    \/ Finally(r)

(***************************************************************************)
(* main.py: extract_from_text                                              *)
(***************************************************************************)
\* lines 124-125: "except Exception as e: raise HTTPException(500, ...)";
\* there is no "except HTTPException: raise" before it
text_except(exc) ==
    Response(500, <<"Error processing text: ">> \o exc.msg, EmptyObj)

\* line 116: InsurancePDFProcessor() is constructed outside the try block
TextConstruct(r) ==
    /\ running = r
    /\ pc[r] = "tconstruct"
    /\ IF ~InsurancePDFProcessor(env).ok
       THEN Finish(r, Unhandled(InsurancePDFProcessor(env).exc))
       ELSE Goto(r, "tcheck")
    /\ UNCHANGED <<health, deployment, env, active, req, loc, calls, fs, stages>>

\* lines 118-119 and 124-125: "if not text.strip(): raise HTTPException(400)"
\* inside the try block, whose except clause catches it
TextCheck(r) ==
    /\ running = r
    /\ pc[r] = "tcheck"
    /\ IF IsBlank(req[r].text)
       THEN Finish(r, text_except(HTTPException(400, <<"Text cannot be empty">>)))
       ELSE Goto(r, "tgenerate")
    /\ UNCHANGED <<health, deployment, env, active, req, loc, calls, fs, stages>>

\* line 121, _pdf_extract.py lines 98-105: the chain is invoked with the text
TextGenerateRequest(r) ==
    /\ running = r
    /\ pc[r] = "tgenerate"
    /\ calls' = [calls EXCEPT ![r].llm = @ + 1]
    /\ loc' = [loc EXCEPT ![r].llm_input = req[r].text]
    /\ Goto(r, "tgenerate_wait")
    /\ UNCHANGED <<health, deployment, env, active, req, fs, stages>>

\* lines 121-125: the chain returns a record, which is the response, or raises
TextGenerateReturn(r) ==
    /\ running = r
    /\ pc[r] = "tgenerate_wait"
    /\ \E ok \in BOOLEAN, extracted_data \in PolicyRecords :
          IF ~ok
          THEN /\ extracted_data = Obj(Fields, {"name"}, Null)
               /\ Finish(r, text_except(Exc("Exception", <<"chain failure">>)))
               /\ UNCHANGED loc
          ELSE /\ loc' = [loc EXCEPT ![r].result = extracted_data]
               /\ Finish(r, Response(200, <<>>, extracted_data))
    /\ UNCHANGED <<health, deployment, env, active, req, calls, fs, stages>>

TextStep(r) ==
    \/ TextConstruct(r)
    \/ TextCheck(r)
    \/ TextGenerateRequest(r)
    \/ TextGenerateReturn(r)

(***************************************************************************)
(* GET /health of either deployment.                                       *)
(***************************************************************************)
Bool(b) == [t |-> "bool", v |-> IF b THEN "true" ELSE "false"]

\* app.py health_check: "healthy" when both clients exist, else "degraded",
\* always with HTTP 200
ocr_health_check ==
    Response(200, <<>>,
             [status |-> Str(IF mistralClient /\ openaiClient THEN "healthy" ELSE "degraded"),
              mistral_configured |-> Bool(mistralClient),
              openai_configured |-> Bool(openaiClient),
              supported_formats |-> [t |-> "list", v |-> SUPPORTED_FORMATS]])

\* main.py health_check: 503 "unhealthy" when OPENAI_API_KEY is unset or
\* empty, else "healthy"; no other variable is looked at
native_health_check ==
    IF env.OPENAI_API_KEY \in {Unset, ""}
    THEN Response(503, <<>>, [status |-> Str("unhealthy"),
                              message |-> Str("OPENAI_API_KEY not configured")])
    ELSE Response(200, <<>>, [status |-> Str("healthy")])

\* GET /health is served when the event loop is free; the handler has no
\* await and reads the configuration only
HealthCheck ==
    /\ Serving
    /\ running = NoReq
    /\ health' = IF deployment = "ocr" THEN ocr_health_check ELSE native_health_check
    /\ UNCHANGED <<deployment, env, active, running, pc, req, loc, calls, fs,
                   response, stages>>

(***************************************************************************)
(* The system.                                                             *)
(***************************************************************************)
\* what src/ provides to the OCR deployment: config.py declares the two
\* provider keys and no api_auth_token
OcrEnvs ==
    [api_auth_token : {MissingAttr},
     mistral_api_key : {Unset, "", "mk"},
     openai_api_key : {Unset, "", "ok"},
     GOOGLE_API_KEY : {""},
     OPENAI_API_KEY : {Unset},
     GeminiLLM : {MissingName},
     extract_text_from_document : {MissingName},
     prompt_yaml : {"absent"}]

\* the OCR deployment with the shared secret of the header check configured,
\* as the transport layer of the specification has it: no code of src/
\* declares or sets this field
TokenEnvs == {[e EXCEPT !.api_auth_token = "secret"] : e \in OcrEnvs}

InitCommon ==
    /\ running = NoReq
    /\ pc = [r \in Reqs |-> "idle"]
    /\ req = [r \in Reqs |-> InitReq]
    /\ loc = [r \in Reqs |-> InitLoc]
    /\ calls = [r \in Reqs |-> InitCalls]
    /\ fs = [temp |-> {},
             extract_txt |-> [exists |-> FALSE, content |-> <<>>, writers |-> {}]]
    /\ response = [r \in Reqs |-> NoResponse]
    /\ stages = [r \in Reqs |-> <<>>]
    /\ health = NoResponse

\* what src/ provides to the native deployment: ai_integration/_llm.py has no
\* GeminiLLM, there is no utils/__init__.py and no prompts/insurance_pdf.yaml
NativeEnvs ==
    [api_auth_token : {MissingAttr},
     mistral_api_key : {""},
     openai_api_key : {""},
     GOOGLE_API_KEY : {"", "gk"},
     OPENAI_API_KEY : {Unset, "", "ok"},
     GeminiLLM : {MissingName},
     extract_text_from_document : {MissingName},
     prompt_yaml : {"absent"}]

\* the native deployment with some or all of the parts that src/ lacks in
\* place: the GeminiLLM class that _pdf_extract.py line 8 imports, the export
\* of extract_text_from_document that main.py line 16 imports, and the
\* prompt file that _pdf_extract.py line 74 loads
CompletedEnvs ==
    [api_auth_token : {MissingAttr},
     mistral_api_key : {""},
     openai_api_key : {""},
     GOOGLE_API_KEY : {"", "gk"},
     OPENAI_API_KEY : {Unset, "", "ok"},
     GeminiLLM : {MissingName, "defined"},
     extract_text_from_document : {MissingName, "defined"},
     prompt_yaml : {"absent", "present"}] \ NativeEnvs

\* the deployment is configured by nothing but the code of src/
AsGiven ==
    IF deployment = "ocr" THEN env \in OcrEnvs ELSE env \in NativeEnvs

\* a deployment starts as src/ configures it, or with what src/ lacks in
\* place; as src/ configures it, app.py answers every request at its first
\* statement (line 61) and main.py is not imported
Init ==
    /\ \/ deployment = "ocr" /\ env \in OcrEnvs \cup TokenEnvs
       \/ deployment = "native" /\ env \in NativeEnvs \cup CompletedEnvs
    /\ active = {"r1"}
    /\ InitCommon

Next ==
    \/ \E r \in Reqs : Start(r) \/ OcrStep(r) \/ NativeStep(r) \/ TextStep(r)
    \/ HealthCheck

Spec == Init /\ [][Next]_vars

(***************************************************************************)
(* Two requests served by one process: both handlers are coroutines of the *)
(* same event loop. The deployments are fully configured and the uploads   *)
(* and provider answers are the few of Inputs.                             *)
(***************************************************************************)
InitConc ==
    /\ \/ /\ deployment = "ocr"
          /\ env \in {e \in OcrEnvs \cup TokenEnvs :
                          e.mistral_api_key = "mk" /\ e.openai_api_key = "ok"}
       \/ /\ deployment = "native"
          /\ env \in {e \in NativeEnvs \cup CompletedEnvs :
                          e.GOOGLE_API_KEY = "gk" /\ e.OPENAI_API_KEY = "ok"}
    /\ active = Reqs
    /\ InitCommon

SpecConc == InitConc /\ [][Next]_vars

(***************************************************************************)
(* The post-processing of extract_insurance_data on its own: the adapter   *)
(* is applied to a JSON object, then the normalization to its result.      *)
(***************************************************************************)
RECURSIVE SubsetsUpTo(_, _)
\* the subsets of S with at most n elements
SubsetsUpTo(S, n) ==
    IF n = 0 THEN {{}}
    ELSE LET smaller == SubsetsUpTo(S, n - 1)
         IN smaller \cup {T \cup {x} : T \in smaller, x \in S}

\* JSON objects over the canonical keys and one more key, any keys missing,
\* at most MaxOdd of the values null, empty or a number
NormObjects ==
    {Obj(D, odd, v) :
        D \in SUBSET AllKeys, odd \in SubsetsUpTo(AllKeys, MaxOdd),
        v \in {Str(""), Null, Num("7")}}

InitNorm ==
    /\ deployment = "ocr"
    /\ env = [api_auth_token |-> MissingAttr, mistral_api_key |-> "mk",
              openai_api_key |-> "ok", GOOGLE_API_KEY |-> "", OPENAI_API_KEY |-> Unset,
              GeminiLLM |-> MissingName, extract_text_from_document |-> MissingName,
              prompt_yaml |-> "absent"]
    /\ active = {"r1"}
    /\ running = "r1"
    /\ health = NoResponse
    /\ pc = [r \in Reqs |-> IF r = "r1" THEN "llm_wait" ELSE "idle"]
    /\ req = [r \in Reqs |-> InitReq]
    /\ \E o \in NormObjects :
          loc = [r \in Reqs |->
                    IF r = "r1"
                    THEN [InitLoc EXCEPT !.llm_answer = [kind |-> "object", obj |-> o]]
                    ELSE InitLoc]
    /\ calls = [r \in Reqs |-> InitCalls]
    /\ fs = [temp |-> {},
             extract_txt |-> [exists |-> FALSE, content |-> <<>>, writers |-> {}]]
    /\ response = [r \in Reqs |-> NoResponse]
    /\ stages = [r \in Reqs |-> <<>>]

\* openai_extractor.py lines 161-180 on the answer held in llm_answer, then
\* lines 164-173 once more on the result
NormalizeStep(r) ==
    /\ pc[r] = "llm_wait"
    /\ loc[r].llm_answer.kind = "object"
    /\ Len(loc[r].results) < 2
    /\ IF loc[r].results = <<>>
       THEN LET extracted == extract_insurance_data(loc[r].llm_answer)
            IN IF extracted.ok
               THEN /\ loc' = [loc EXCEPT ![r].results = <<extracted.val>>]
                    /\ UNCHANGED <<pc, response, running>>
               ELSE /\ Finish(r, app_except(extracted.exc))
                    /\ UNCHANGED loc
       ELSE /\ loc' = [loc EXCEPT ![r].results =
                           Append(@, AddMissingFields(loc[r].results[1]))]
            /\ UNCHANGED <<pc, response, running>>
    /\ UNCHANGED <<health, deployment, env, active, req, calls, fs, stages>>

NextNorm == \E r \in Reqs : NormalizeStep(r)

SpecNorm == InitNorm /\ [][NextNorm]_vars

(***************************************************************************)
(* The adapters and the response class on their own, outside any request:  *)
(* each is given one input and applied to it once. Nothing of this depends *)
(* on the configuration, which is that of src/.                            *)
(***************************************************************************)
MaxPieces == 3

\* the pieces upload filenames are put together from
NamePieces ==
    { <<"a">>, <<".">>, <<"/">>, <<".","p","d","f">>, <<".","P","d","F">>,
      <<".","t","x","t">>, <<".","j","p","e","g">>, <<".","e","x","e">> }

RECURSIVE Flatten(_)
Flatten(parts) == IF parts = <<>> THEN <<>> ELSE Head(parts) \o Flatten(Tail(parts))

\* the filenames of one to MaxPieces pieces
PiecedFilenames == {Flatten(ps) : ps \in SeqsUpTo(NamePieces, MaxPieces)} \ {<<>>}

\* app.py line 81: "file_ext = Path(file.filename).suffix.lower()"
file_ext(filename) == Lower(PathSuffix(filename))

\* mistral_parser.py lines 35-48: "filename.lower().split('.')[-1]", looked up
\* in mime_types
mime_type(filename) == MimeOf(SplitLast(Lower(filename)))

InitAdapters ==
    /\ deployment = "ocr"
    /\ env = [api_auth_token |-> MissingAttr, mistral_api_key |-> "mk",
              openai_api_key |-> "ok", GOOGLE_API_KEY |-> "", OPENAI_API_KEY |-> Unset,
              GeminiLLM |-> MissingName, extract_text_from_document |-> MissingName,
              prompt_yaml |-> "absent"]
    /\ active = {"r1"}
    /\ running = NoReq
    /\ health = NoResponse
    /\ calls = [r \in Reqs |-> InitCalls]
    /\ fs = [temp |-> {},
             extract_txt |-> [exists |-> FALSE, content |-> <<>>, writers |-> {}]]
    /\ response = [r \in Reqs |-> NoResponse]
    /\ stages = [r \in Reqs |-> <<>>]
    /\ \/ /\ pc = [r \in Reqs |-> IF r = "r1" THEN "filename" ELSE "idle"]
          /\ \E f \in PiecedFilenames \cup Filenames :
                req = [r \in Reqs |->
                          IF r = "r1" THEN [InitReq EXCEPT !.filename = f] ELSE InitReq]
          /\ loc = [r \in Reqs |-> InitLoc]
       \/ /\ pc = [r \in Reqs |-> IF r = "r1" THEN "parse" ELSE "idle"]
          /\ req = [r \in Reqs |-> InitReq]
          /\ \E answer \in OcrAnswers :
                loc = [r \in Reqs |->
                          IF r = "r1" THEN [InitLoc EXCEPT !.ocr_answer = answer]
                          ELSE InitLoc]
       \/ /\ pc = [r \in Reqs |-> IF r = "r1" THEN "extract" ELSE "idle"]
          /\ req = [r \in Reqs |-> InitReq]
          /\ \E answer \in LlmAnswers :
                loc = [r \in Reqs |->
                          IF r = "r1" THEN [InitLoc EXCEPT !.llm_answer = answer]
                          ELSE InitLoc]

\* both derivations of the file type, applied to the same filename
ApplyFileType(r) ==
    /\ pc[r] = "filename"
    /\ loc' = [loc EXCEPT ![r].file_ext = file_ext(req[r].filename),
                          ![r].mime_type = mime_type(req[r].filename)]
    /\ pc' = [pc EXCEPT ![r] = "applied"]
    /\ UNCHANGED <<health, deployment, env, active, running, req, calls, fs,
                   response, stages>>

\* MistralDocumentParser.parse_document, applied to an answer of the provider
ApplyParse(r) ==
    /\ pc[r] = "parse"
    /\ loc' = [loc EXCEPT ![r].results = <<parse_document(loc[r].ocr_answer)>>]
    /\ pc' = [pc EXCEPT ![r] = "applied"]
    /\ UNCHANGED <<health, deployment, env, active, running, req, calls, fs,
                   response, stages>>

\* OpenAIExtractor.extract_insurance_data, applied to an answer of the provider
ApplyExtract(r) ==
    /\ pc[r] = "extract"
    /\ LET extracted == extract_insurance_data(loc[r].llm_answer)
       IN /\ loc' = [loc EXCEPT ![r].results = <<extracted>>]
          /\ pc' = [pc EXCEPT ![r] = IF extracted.ok THEN "model" ELSE "applied"]
    /\ UNCHANGED <<health, deployment, env, active, running, req, calls, fs,
                   response, stages>>

\* InsuranceDataResponse(**result), applied to what the adapter returned
ApplyModel(r) ==
    /\ pc[r] = "model"
    /\ loc' = [loc EXCEPT ![r].results =
                    Append(@, InsuranceDataResponse(loc[r].results[1].val))]
    /\ pc' = [pc EXCEPT ![r] = "applied"]
    /\ UNCHANGED <<health, deployment, env, active, running, req, calls, fs,
                   response, stages>>

NextAdapters ==
    \E r \in Reqs : ApplyFileType(r) \/ ApplyParse(r) \/ ApplyExtract(r) \/ ApplyModel(r)

SpecAdapters == InitAdapters /\ [][NextAdapters]_vars

(***************************************************************************)
(* Properties.                                                             *)
(***************************************************************************)
Done(r) == pc[r] = "done"

IsSuffix(a, b) == Len(a) <= Len(b) /\ SubSeq(b, Len(b) - Len(a) + 1, Len(b)) = a

NoProviderCall(r) == calls[r] = InitCalls

\* an adapter or the response class has been applied to the input of r
Applied(r) == pc[r] = "applied"

\* what the code applied last has returned or raised
Outcome(r) == loc[r].results[Len(loc[r].results)]

\* C1: whatever JSON object the LLM returned, a record that the response
\* class builds from the adapter's result (app.py lines 103-105) holds exactly
\* the eight canonical keys, each value a non-empty string or null.
C1_RecordShape ==
    \A r \in Reqs :
        (/\ Applied(r) /\ loc[r].llm_answer.kind = "object"
         /\ Len(loc[r].results) = 2 /\ Outcome(r).ok) =>
            /\ DOMAIN Outcome(r).val = Fields
            /\ \A k \in Fields :
                  \/ Outcome(r).val[k] = Null
                  \/ Outcome(r).val[k].t = "str" /\ Outcome(r).val[k].v # ""

\* the request of r has arrived with a filename whose extension is outside
\* the allow-list of the deployment
BadExtension(r) ==
    /\ pc[r] # "idle"
    /\ req[r].endpoint = "/extract"
    /\ Lower(PathSuffix(req[r].filename)) \notin
          (IF deployment = "ocr" THEN SUPPORTED_FORMATS ELSE NATIVE_FORMATS)

\* C2: a filename with an extension outside the allow-list is answered with
\* HTTP 400 and no provider is called; read on the deployments as src/
\* configures them and on the requests that carry the X-API-Key header.
C2_Rejected400 ==
    \A r \in Reqs :
        (AsGiven /\ BadExtension(r) /\ req[r].key # NoHeader) =>
            /\ NoProviderCall(r)
            /\ Done(r) => response[r].status = 400

\* C3: in the OCR deployment an upload longer than the maximum is answered
\* with HTTP 400 and no provider is called; read on the deployment as src/
\* configures it and on the requests that carry the X-API-Key header.
C3_OversizeRejected400 ==
    \A r \in Reqs :
        (/\ AsGiven /\ deployment = "ocr" /\ Done(r)
         /\ req[r].key # NoHeader /\ req[r].size > MAX_FILE_SIZE) =>
            /\ response[r].status = 400
            /\ NoProviderCall(r)

NoPageHasText(pages) == \A i \in 1..Len(pages) : Len(pages[i]) = 0

\* C4: when the OCR answer has no page with text, parse_document fails with
\* the user error (the ValueError that the handler answers with a 4xx), not
\* with the error class of a failed provider call.
C4_NoTextIsUserError ==
    \A r \in Reqs :
        (/\ Applied(r) /\ loc[r].ocr_answer.kind = "pages"
         /\ NoPageHasText(loc[r].ocr_answer.pages)) =>
            /\ ~Outcome(r).ok
            /\ IsInstance(Outcome(r).exc.cls, "ValueError")
            /\ app_except(Outcome(r).exc).status \in 400..499

\* the text extraction stage of r has returned its text to the handler
TextExtracted(r) ==
    /\ Len(stages[r]) >= 2
    /\ \/ stages[r][2].ok
       \/ stages[r][2].err = <<"No text could be extracted from the document">>

Unparseable(answer) ==
    \/ answer.kind \in {"invalid", "nonobject", "nonobject_named"}
    \/ /\ answer.kind = "object"
       /\ \E k \in Fields \cap DOMAIN answer.obj : answer.obj[k].t \notin {"str", "null"}

\* C6: LLM output that cannot be parsed into the schema ends in an error,
\* raised by the adapter or by the response class, that the handler's except
\* clauses answer with a server-side failure (5xx); no record is built.
C6_MalformedIsServerError ==
    \A r \in Reqs :
        (Applied(r) /\ Unparseable(loc[r].llm_answer)) =>
            /\ ~Outcome(r).ok
            /\ app_except(Outcome(r).exc).status \in 500..599

\* C7: an exception raised by the OCR or the LLM provider call leaves the
\* adapter as the error of a failed provider call (RuntimeError), which the
\* handler's except clauses answer with HTTP 500, never with a 4xx.
C7_ProviderFailureIs500 ==
    \A r \in Reqs :
        (/\ Applied(r)
         /\ \/ loc[r].ocr_answer.kind = "raise"
            \/ loc[r].llm_answer.kind \in {"raise_api", "raise_json"}) =>
            /\ ~Outcome(r).ok
            /\ Outcome(r).exc.cls = "RuntimeError"
            /\ app_except(Outcome(r).exc).status = 500

StageOrder == <<"validate", "text", "fields">>

\* C8: for a document sent to /extract the stages run in the order validate,
\* extract text, extract fields, each only after the earlier ones succeeded; a
\* failed stage's error is the one reported; the request ends with the
\* complete record or with one error.
C8_FailFast ==
    \A r \in Reqs :
        req[r].endpoint # "/extract-text" =>
        LET n == Len(stages[r]) IN
        /\ n <= 3
        /\ \A i \in 1..n : stages[r][i].stage = StageOrder[i]
        /\ \A i \in 1..(n - 1) : stages[r][i].ok
        /\ (calls[r].ocr > 0 \/ calls[r].vision > 0) => (n >= 1 /\ stages[r][1].ok)
        /\ calls[r].llm > 0 => (n >= 2 /\ stages[r][2].ok)
        /\ (n > 0 /\ ~stages[r][n].ok) =>
              \/ pc[r] = "finally" /\ loc[r].temp_file_path
                    /\ loc[r].pending.status >= 400
                    /\ IsSuffix(stages[r][n].err, loc[r].pending.detail)
              \/ /\ Done(r)
                 /\ response[r].status >= 400
                 /\ IsSuffix(stages[r][n].err, response[r].detail)
        /\ Done(r) =>
              \/ /\ response[r].status = 200
                 /\ DOMAIN response[r].body = Fields
                 /\ n = 3 /\ stages[r][3].ok
              \/ /\ response[r].status >= 400
                 /\ response[r].body = EmptyObj

C8_Witness ==
    \E r \in Reqs :
        /\ Done(r) /\ Len(stages[r]) = 2 /\ ~stages[r][2].ok
        /\ calls[r].ocr = 1 /\ calls[r].llm = 0
        /\ response[r].status >= 400

\* C9: in the OCR pipeline a request calls the OCR provider at most once and
\* the LLM provider at most once; once a call has failed or returned unusable
\* output the request is over and no provider is called again.
C9_NoRetry ==
    \A r \in Reqs :
        deployment = "ocr" =>
            /\ calls[r].ocr <= 1
            /\ calls[r].llm <= 1
            /\ (loc[r].ocr_answer.kind # "" /\ ~parse_document(loc[r].ocr_answer).ok) =>
                  (Done(r) /\ calls[r] = [ocr |-> 1, llm |-> 0, vision |-> 0])
            /\ loc[r].llm_answer.kind # "" =>
                  (Done(r) /\ calls[r] = [ocr |-> 1, llm |-> 1, vision |-> 0])

C9_Witness ==
    \E r \in Reqs :
        /\ deployment = "ocr" /\ Done(r)
        /\ loc[r].llm_answer.kind = "invalid"
        /\ calls[r].ocr = 1 /\ calls[r].llm = 1

\* C10: the post-processing inserts null for exactly the canonical keys the
\* parsed object lacks and leaves every key that is present unchanged; a
\* second normalization changes nothing; a missing key is never an error.
C10_Normalization ==
    \A r \in Reqs :
        LET given == loc[r].llm_answer.obj
            results == loc[r].results
        IN /\ (pc[r] = "llm_wait" /\ loc[r].llm_answer.kind = "object") =>
                 response[r] = NoResponse
           /\ Len(results) >= 1 =>
                 /\ DOMAIN results[1] = DOMAIN given \cup Fields
                 /\ \A k \in DOMAIN given : results[1][k] = given[k]
                 /\ \A k \in Fields \ DOMAIN given : results[1][k] = Null
           /\ Len(results) >= 2 => results[2] = results[1]

C10_Witness ==
    \E r \in Reqs :
        /\ Len(loc[r].results) = 2
        /\ Cardinality(Fields \ DOMAIN loc[r].llm_answer.obj) = 3
        /\ Cardinality(Fields \cap DOMAIN loc[r].llm_answer.obj) = 5
        /\ \E k \in Fields \cap DOMAIN loc[r].llm_answer.obj :
              loc[r].llm_answer.obj[k] = Str("")

\* the LLM answered with a JSON object that holds all eight canonical keys,
\* each with a string or null
FullRecord(answer) ==
    /\ answer.kind = "object"
    /\ Fields \subseteq DOMAIN answer.obj
    /\ ~Unparseable(answer)

\* C11: end to end in the OCR pipeline, when the OCR provider returned pages
\* with text and the LLM a JSON object with all eight canonical keys, the
\* response is that record, each of the eight values unchanged.
C11_EndToEnd ==
    \A r \in Reqs :
        (deployment = "ocr" /\ Done(r) /\ FullRecord(loc[r].llm_answer)) =>
            /\ response[r].status = 200
            /\ DOMAIN response[r].body = Fields
            /\ \A k \in Fields : response[r].body[k] = loc[r].llm_answer.obj[k]

C11_Witness ==
    \E r \in Reqs :
        /\ deployment = "ocr" /\ Done(r) /\ FullRecord(loc[r].llm_answer)
        /\ req[r].filename = <<"a", ".", "p", "d", "f">>
        /\ loc[r].file_content <= MAX_FILE_SIZE
        /\ loc[r].ocr_answer.pages = << <<"a">>, <<"b">> >>
        /\ response[r].body["email"] = Str("email")

\* C12 as stated: in the OCR deployment a request whose X-API-Key differs from
\* the token of the settings is answered with HTTP 401 before any validation,
\* read or provider call, and a request whose header equals it is not turned
\* away by this check.
C12_Unauthorized401 ==
    \A r \in Reqs :
        (deployment = "ocr" /\ pc[r] \notin {"idle", "auth"} /\ req[r].key # NoHeader) =>
            IF req[r].key # env.api_auth_token
            THEN /\ Done(r)
                 /\ response[r] =
                        Response(401, <<"Invalid or missing API key">>, EmptyObj)
                 /\ stages[r] = <<>>
                 /\ NoProviderCall(r)
            ELSE ~(Done(r) /\ response[r].status = 401)

IsPrefix(a, b) == Len(a) <= Len(b) /\ SubSeq(b, 1, Len(a)) = a

AwaitsProvider(r) ==
    pc[r] \in {"ocr_wait", "llm_wait", "vision_wait", "generate_wait", "tgenerate_wait"}

RECURSIVE TextUpTo(_, _)
\* the text of the first n pages: each page with text, in page order, a blank
\* line between one and the next
TextUpTo(pages, n) ==
    IF n = 0 THEN <<>>
    ELSE LET before == TextUpTo(pages, n - 1)
         IN IF pages[n] = <<>> THEN before
            ELSE IF NoPageHasText(SubSeq(pages, 1, n - 1)) THEN pages[n]
            ELSE before \o <<"\n", "\n">> \o pages[n]

\* C16: the text the OCR strategy hands on is the text of the provider's pages
\* in the provider's order with "\n\n" between them; a page without text
\* contributes nothing, and no page with text is dropped, doubled or moved.
C16_PagesInOrder ==
    \A r \in Reqs :
        (/\ deployment = "ocr"
         /\ loc[r].ocr_answer.kind = "pages"
         /\ ~NoPageHasText(loc[r].ocr_answer.pages)) =>
            /\ loc[r].document_text =
                   TextUpTo(loc[r].ocr_answer.pages, Len(loc[r].ocr_answer.pages))
            /\ calls[r].llm > 0 => loc[r].llm_input = loc[r].document_text

C16_Witness ==
    \E r \in Reqs :
        /\ deployment = "ocr"
        /\ loc[r].ocr_answer.pages = << <<"b">>, <<"a">> >>
        /\ loc[r].llm_input = <<"b", "\n", "\n", "a">>

RECURSIVE Labelled(_, _)
\* the first n transcriptions, each under the label of its page counted from
\* 1, a blank line between one and the next
Labelled(texts, n) ==
    IF n = 0 THEN <<>>
    ELSE (IF n = 1 THEN <<>> ELSE Labelled(texts, n - 1) \o <<"\n", "\n">>)
             \o <<"--- Page ", Digits[n], " ---", "\n">> \o texts[n]

\* extract_text_from_document has returned the text of r's PDF to the handler
PdfExtracted(r) == pc[r] = "dump" \/ TextExtracted(r)

\* a vision call of r's PDF has failed
PdfPageFailed(r) ==
    /\ calls[r].vision > 0
    /\ Len(stages[r]) >= 2
    /\ ~TextExtracted(r)

\* C17: for a PDF of N pages in the native deployment the vision provider is
\* called once per page, for the pages 1..N in this order; the text is the N
\* transcriptions, each labelled with its page number counted from 1, in page
\* order with blank lines between; when a page's call fails the extraction
\* fails as a whole and the text of the earlier pages goes nowhere.
C17_OneCallPerPage ==
    \A r \in Reqs :
        (deployment = "native" /\ loc[r].file_ext = <<".", "p", "d", "f">>) =>
            /\ calls[r].vision = Len(loc[r].vision_pages)
            /\ calls[r].vision <= loc[r].n_pages
            /\ \A i \in 1..Len(loc[r].vision_pages) : loc[r].vision_pages[i] = i
            /\ PdfExtracted(r) =>
                  /\ calls[r].vision = loc[r].n_pages
                  /\ Len(loc[r].page_texts) = loc[r].n_pages
                  /\ loc[r].document_text = Labelled(loc[r].page_texts, loc[r].n_pages)
            /\ PdfPageFailed(r) =>
                  /\ loc[r].document_text = <<>>
                  /\ calls[r].llm = 0
                  /\ r \notin fs.extract_txt.writers
                  /\ loc[r].pending.status = 500 /\ loc[r].pending.body = EmptyObj

C17_Witness ==
    \E r \in Reqs :
        /\ deployment = "native" /\ Done(r) /\ response[r].status = 200
        /\ loc[r].n_pages = 2
        /\ loc[r].vision_pages = <<1, 2>>
        /\ loc[r].llm_input = <<"--- Page ", "1", " ---", "\n", "a", "\n", "\n",
                                "--- Page ", "2", " ---", "\n", "b">>

C21_MimeOfValidated ==
    \A r \in Reqs :
        (/\ Applied(r) /\ req[r].filename # <<>>
         /\ FormatAllowed(loc[r].file_ext)) =>
            /\ loc[r].mime_type = MimeOf(Tail(loc[r].file_ext))
            /\ loc[r].mime_type # "application/octet-stream"

\* GET /health has answered "healthy" with HTTP 200
ReportsHealthy == health.status = 200 /\ health.body["status"] = Str("healthy")

\* every provider credential the deployment's /extract pipeline reads is set
CredentialsConfigured ==
    IF deployment = "ocr"
    THEN mistralClient /\ openaiClient
    ELSE env.GOOGLE_API_KEY # "" /\ env.OPENAI_API_KEY \notin {Unset, ""}

\* the /extract request r was turned away for a missing provider credential
FailedForCredential(r) ==
    /\ Done(r) /\ req[r].endpoint = "/extract"
    /\ IF deployment = "ocr"
       THEN response[r].detail \in {<<"Mistral API key not configured">>,
                                    <<"OpenAI API key not configured">>}
       ELSE \/ env.GOOGLE_API_KEY = "" /\ stages[r] = <<>>
            \/ /\ Len(stages[r]) = 2
               /\ stages[r][2].err = <<"The api_key client option must be set">>

====
